---- MODULE Spec2Model ----
(***************************************************************************)
(* Model of package tcp of hwipl/packet-go: the scripted TCP connection    *)
(* generator (Peer, Conn, createPacket, Connect, Send, Disconnect), and of *)
(* the listen loop of its pcap Listener (Listener.Loop).                   *)
(*                                                                         *)
(* Go values are represented as follows.                                   *)
(*   string        tuple of one-character strings                          *)
(*   []byte, net.IP, net.HardwareAddr                                      *)
(*                 tuple of bytes; a nil net.IP / HardwareAddr is <<>>      *)
(*   slice whose nil-ness the code tests (Options, payload)                 *)
(*                 NilSlice (<<>>) or Slice(s) (<<s>>), s the elements      *)
(*   uint32        two 16-bit limbs <<hi, lo>>, value hi * 2^16 + lo        *)
(*   *Peer         a key of the heap function peer                          *)
(***************************************************************************)
EXTENDS Integers, Sequences, FiniteSets, TLC

VARIABLES peer, conn, status, hist

\* the Listener, the position of its Loop, Loop's locals ticker, stop and
\* count, the channel of the packet source, the clock, and the calls Loop has
\* made to the handlers
VARIABLES listener, lpc, ticker, stop, count, packetSource, now, handled,
          timerCalls, event

tcpvars == <<peer, conn, status, hist>>

lvars == <<listener, lpc, ticker, stop, count, packetSource, now, handled,
           timerCalls, event>>

vars == <<tcpvars, lvars>>

(***************************************************************************)
(* Bounds of the model.                                                    *)
(***************************************************************************)
\* number of Connect/Send/Disconnect calls made by one script
MaxOps == 3

\* number of packets the packet source observes
MaxArrivals == 3

\* the time up to which the clock runs
MaxClock == 3

(***************************************************************************)
(* uint32 arithmetic.                                                      *)
(***************************************************************************)
Limb == 65536

Zero32 == <<0, 0>>

\* the uint32 with the value n, for 0 <= n < 2^16
Lit32(n) == <<0, n>>

\* the largest uint32, 2^32 - 1
Max32 == <<Limb - 1, Limb - 1>>

\* x + n computed in more than 32 bits: the carry out of the high half is kept
Add32Wide(x, n) ==
    LET s == x[2] + n
    IN  <<x[1] + (s \div Limb), s % Limb>>

\* x + n in uint32 arithmetic (wraps modulo 2^32), for 0 <= n < 2^16
Add32(x, n) ==
    LET s == x[2] + n
    IN  <<(x[1] + (s \div Limb)) % Limb, s % Limb>>

(***************************************************************************)
(* Slices whose nil-ness is observable.                                    *)
(***************************************************************************)
NilSlice == <<>>

Slice(s) == <<s>>

IsNil(x) == x = NilSlice

\* the elements of a slice; a nil slice has none
Elems(x) == IF IsNil(x) THEN <<>> ELSE x[1]

(***************************************************************************)
(* net.ParseMAC and net.ParseIP, as called by NewPeer.                     *)
(***************************************************************************)
HexDigits ==
    <<"0", "1", "2", "3", "4", "5", "6", "7", "8", "9",
      "a", "b", "c", "d", "e", "f">>

IsHex(c) == \E i \in 1..Len(HexDigits) : HexDigits[i] = c

HexVal(c) == (CHOOSE i \in 1..Len(HexDigits) : HexDigits[i] = c) - 1

DecDigits == <<"0", "1", "2", "3", "4", "5", "6", "7", "8", "9">>

IsDec(c) == \E i \in 1..Len(DecDigits) : DecDigits[i] = c

DecVal(c) == (CHOOSE i \in 1..Len(DecDigits) : DecDigits[i] = c) - 1

\* xtoi2(s[x:], e): two hex digits at (1-based) position x of s, followed by
\* the separator e unless the string ends there
xtoi2ok(s, x, e) ==
    /\ x + 1 <= Len(s)
    /\ IsHex(s[x])
    /\ IsHex(s[x + 1])
    /\ (Len(s) > x + 1 => s[x + 2] = e)

xtoi2(s, x) == 16 * HexVal(s[x]) + HexVal(s[x + 1])

\* xtoi2(s[x:x+2], 0): two hex digits and nothing after them
xtoi2pair(s, x) ==
    /\ x + 1 <= Len(s)
    /\ IsHex(s[x])
    /\ IsHex(s[x + 1])

HwLens == {6, 8, 20}

\* net.ParseMAC: [err, hw]
ParseMAC(s) ==
    LET bad == [err |-> TRUE, hw |-> <<>>]
    IN  IF Len(s) < 14 THEN bad
        ELSE IF s[3] = ":" \/ s[3] = "-"
        THEN IF (Len(s) + 1) % 3 # 0 THEN bad
             ELSE LET n == (Len(s) + 1) \div 3
                  IN  IF n \notin HwLens THEN bad
                      ELSE IF \A i \in 0..(n - 1) : xtoi2ok(s, 3 * i + 1, s[3])
                      THEN [err |-> FALSE,
                            hw |-> [i \in 1..n |-> xtoi2(s, 3 * (i - 1) + 1)]]
                      ELSE bad
        ELSE IF s[5] = "."
        THEN IF (Len(s) + 1) % 5 # 0 THEN bad
             ELSE LET n == 2 * ((Len(s) + 1) \div 5)
                  IN  IF n \notin HwLens THEN bad
                      ELSE IF \A g \in 0..((n \div 2) - 1) :
                                 /\ xtoi2pair(s, 5 * g + 1)
                                 /\ xtoi2ok(s, 5 * g + 3, s[5])
                      THEN [err |-> FALSE,
                            hw |-> [i \in 1..n |->
                                      xtoi2(s, 5 * ((i - 1) \div 2) + 1
                                               + 2 * ((i - 1) % 2))]]
                      ELSE bad
        ELSE bad

\* dtoi: the number of leading decimal digits of s from position x on
RECURSIVE dtoiLen(_, _)
dtoiLen(s, x) ==
    IF x <= Len(s) /\ IsDec(s[x]) THEN 1 + dtoiLen(s, x + 1) ELSE 0

\* dtoi: the value of the c decimal digits of s from position x on
RECURSIVE dtoiVal(_, _, _)
dtoiVal(s, x, c) ==
    IF c = 0 THEN 0
    ELSE 10 * dtoiVal(s, x, c - 1) + DecVal(s[x + c - 1])

\* parseIPv4, fields i..4 read from position x on: the bytes, or <<>> (nil)
\* paired with a failure flag
RECURSIVE parseIPv4From(_, _, _)
parseIPv4From(s, x, i) ==
    IF i > 4
    THEN [ok |-> x > Len(s), p |-> <<>>]
    ELSE IF x > Len(s) THEN [ok |-> FALSE, p |-> <<>>]
    ELSE IF i > 1 /\ s[x] # "." THEN [ok |-> FALSE, p |-> <<>>]
    ELSE LET y == IF i > 1 THEN x + 1 ELSE x
             c == dtoiLen(s, y)
         IN  IF c = 0 \/ c > 3 THEN [ok |-> FALSE, p |-> <<>>]
             ELSE IF dtoiVal(s, y, c) > 255 THEN [ok |-> FALSE, p |-> <<>>]
             ELSE IF c > 1 /\ s[y] = "0" THEN [ok |-> FALSE, p |-> <<>>]
             ELSE LET rest == parseIPv4From(s, y + c, i + 1)
                  IN  [ok |-> rest.ok,
                       p |-> <<dtoiVal(s, y, c)>> \o rest.p]

\* net.ParseIP for strings without ':' (no IPv6 text is among the inputs):
\* the 4 address bytes, or <<>> (a nil net.IP) when s is no dotted quad
ParseIP(s) ==
    IF \E k \in 1..Len(s) : s[k] = "."
    THEN LET r == parseIPv4From(s, 1, 1)
         IN  IF r.ok THEN r.p ELSE <<>>
    ELSE <<>>

(***************************************************************************)
(* Inputs of the scripts.                                                  *)
(***************************************************************************)
MacClient == <<"0", "0", ":", "0", "0", ":", "5", "e", ":", "0", "0", ":", "5", "3", ":", "0", "1">>

MacServer == <<"0", "0", "-", "0", "0", "-", "5", "e", "-", "0", "0", "-", "5", "3", "-", "0", "2">>

MacDot == <<"0", "0", "0", "0", ".", "5", "e", "0", "0", ".", "5", "3", "0", "3">>

MacEUI64 == <<"0", "2", ":", "0", "0", ":", "5", "e", ":", "1", "0", ":", "0", "0", ":", "0", "0", ":", "0", "0", ":", "0", "1">>

MacShort == <<"0", "0", ":", "0", "0", ":", "5", "e", ":", "0", "0", ":", "5", "3">>

MacNotHex == <<"0", "0", ":", "0", "0", ":", "5", "e", ":", "0", "0", ":", "5", "3", ":", "z", "z">>

IpClient == <<"1", "0", ".", "0", ".", "0", ".", "1">>

IpServer == <<"1", "9", "2", ".", "1", "6", "8", ".", "1", ".", "2">>

IpOctetTooBig == <<"1", "0", ".", "0", ".", "0", ".", "2", "5", "6">>

IpThreeFields == <<"1", "0", ".", "0", ".", "1">>

IpWord == <<"l", "o", "c", "a", "l", "h", "o", "s", "t">>

\* well-formed 6-byte hardware addresses, by their text
GoodMACs == {MacClient, MacServer, MacDot}

\* text that is no hardware address
BadMACs == {MacShort, MacNotHex}

\* well-formed dotted-quad IPv4 addresses, by their text
GoodIPs == {IpClient, IpServer}

\* text that is no IPv4 address
BadIPs == {IpOctetTooBig, IpThreeFields, IpWord}

PeerIds == {"client", "server"}

\* the arguments <<mac, ip, port, isn>> the scripts pass to NewPeer for the
\* client and for the server: well-formed and malformed addresses, initial
\* sequence numbers in the middle and at the top of the uint32 range
PeerInputs(id) ==
    IF id = "client"
    THEN { <<MacClient, IpClient, 49152, Lit32(100)>>,
           <<MacClient, IpClient, 49152, Max32>>,
           <<MacEUI64, IpClient, 49152, Lit32(100)>>,
           <<MacShort, IpClient, 49152, Lit32(100)>>,
           <<MacNotHex, IpWord, 49152, Lit32(100)>>,
           <<MacClient, IpOctetTooBig, 49152, Lit32(100)>>,
           <<MacClient, IpWord, 49152, Lit32(100)>> }
    ELSE { <<MacServer, IpServer, 80, Lit32(500)>>,
           <<MacServer, IpServer, 80, Max32>>,
           <<MacDot, IpServer, 80, Lit32(500)>>,
           <<MacNotHex, IpServer, 80, Lit32(500)>>,
           <<MacServer, IpThreeFields, 80, Lit32(500)>> }

\* the <<sender, receiver>> arguments the scripts pass to Send
SendPairs ==
    { <<"client", "server">>, <<"server", "client">>, <<"client", "client">> }

\* a payload of n bytes, "a", "b", "c", ...
Bytes(n) == [i \in 1..n |-> 96 + i]

\* the payload arguments the scripts pass to Send: nil, empty, "abc"
Payloads == {NilSlice, Slice(Bytes(0)), Slice(Bytes(3))}

\* the option lists the scripts store in Conn.Options before the first call
OptionConfigs ==
    { [SYN |-> Slice(<<"MSS", "SACKPermitted", "WindowScale">>),
       SYNACK |-> Slice(<<"MSS", "WindowScale">>),
       ACK |-> Slice(<<"Timestamps">>)],
      [SYN |-> Slice(<<"MSS">>),
       SYNACK |-> NilSlice,
       ACK |-> Slice(<<>>)] }

(***************************************************************************)
(* Peer and Conn.                                                          *)
(***************************************************************************)
NoFlags == [SYN |-> FALSE, ACK |-> FALSE, FIN |-> FALSE]

\* NewPeer, ignoring the initial sequence number it is given
NewPeerSeqZero(mac, ip, port, isn) ==
    LET m == ParseMAC(mac)
    IN  IF m.err
        THEN [fatal |-> TRUE, p |-> <<>>]
        ELSE [fatal |-> FALSE,
              p |-> [MAC |-> m.hw, IP |-> ParseIP(ip), Port |-> port,
                     Seq |-> Zero32, Ack |-> Zero32, Flags |-> NoFlags,
                     Options |-> NilSlice]]

\* NewPeer: log.Fatal when the hardware address does not parse; the result
\* of net.ParseIP is stored unchecked
NewPeer(mac, ip, port, isn) ==
    LET m == ParseMAC(mac)
    IN  IF m.err
        THEN [fatal |-> TRUE, p |-> <<>>]
        ELSE [fatal |-> FALSE,
              p |-> [MAC |-> m.hw, IP |-> ParseIP(ip), Port |-> port,
                     Seq |-> isn, Ack |-> Zero32, Flags |-> NoFlags,
                     Options |-> NilSlice]]

NoOptions == [SYN |-> NilSlice, SYNACK |-> NilSlice, ACK |-> NilSlice]

NewConn(client, server) ==
    [Client |-> client, Server |-> server, Options |-> NoOptions,
     Packets |-> <<>>]

(***************************************************************************)
(* createPacket.  A machine state st is [peer, c, fatal]: the heap of      *)
(* peers, the Conn, and whether log.Fatal has ended the process; a         *)
(* statement executed after log.Fatal has no effect.                       *)
(***************************************************************************)
\* gopacket.SerializeLayers returns an error when a hardware address is not
\* 6 bytes long or an IP address is no IPv4 address
SerializeError(frame) ==
    \/ Len(frame.SrcMAC) # 6
    \/ Len(frame.DstMAC) # 6
    \/ Len(frame.SrcIP) # 4
    \/ Len(frame.DstIP) # 4

\* BuildFrame, with the sequence and acknowledgment fields exchanged
BuildFrameSeqAckSwapped(s, r, payload) ==
    [SrcMAC |-> s.MAC, DstMAC |-> r.MAC, EthernetType |-> "IPv4",
     Version |-> 4, IPFlags |-> "DF", Id |-> 1, TTL |-> 64,
     Protocol |-> "TCP", SrcIP |-> s.IP, DstIP |-> r.IP,
     SrcPort |-> s.Port, DstPort |-> r.Port,
     SYN |-> s.Flags.SYN, ACK |-> s.Flags.ACK, FIN |-> s.Flags.FIN,
     Seq |-> s.Ack, Ack |-> s.Seq, Window |-> 64000,
     Options |-> IF ~IsNil(s.Options) THEN s.Options[1] ELSE <<>>,
     Payload |-> IF ~IsNil(payload) THEN payload[1] ELSE <<>>]

\* the frame createPacket builds from the sender's and receiver's fields
BuildFrame(s, r, payload) ==
    [SrcMAC |-> s.MAC, DstMAC |-> r.MAC, EthernetType |-> "IPv4",
     Version |-> 4, IPFlags |-> "DF", Id |-> 1, TTL |-> 64,
     Protocol |-> "TCP", SrcIP |-> s.IP, DstIP |-> r.IP,
     SrcPort |-> s.Port, DstPort |-> r.Port,
     SYN |-> s.Flags.SYN, ACK |-> s.Flags.ACK, FIN |-> s.Flags.FIN,
     Seq |-> s.Seq, Ack |-> s.Ack, Window |-> 64000,
     Options |-> IF ~IsNil(s.Options) THEN s.Options[1] ELSE <<>>,
     Payload |-> IF ~IsNil(payload) THEN payload[1] ELSE <<>>]

\* createPacket, storing the new packet in front of the old ones
createPacketInFront(st, sender, receiver, payload) ==
    IF st.fatal THEN st
    ELSE LET frame == BuildFrame(st.peer[sender], st.peer[receiver], payload)
             old == st.c.Packets
             packets == [i \in 1..(Len(old) + 1) |->
                           IF i > 1 THEN old[i - 1] ELSE frame]
         IN  IF SerializeError(frame)
             THEN [st EXCEPT !.fatal = TRUE]
             ELSE [st EXCEPT !.c.Packets = packets]

\* createPacket, reading the sender's sequence number as it will be after the
\* sender's next increment by 1
createPacketSeqAhead(st, sender, receiver, payload) ==
    IF st.fatal THEN st
    ELSE LET ahead == [st.peer[sender] EXCEPT !.Seq = Add32(@, 1)]
             frame == BuildFrame(ahead, st.peer[receiver], payload)
             old == st.c.Packets
             packets == [i \in 1..(Len(old) + 1) |->
                           IF i <= Len(old) THEN old[i] ELSE frame]
         IN  IF SerializeError(frame)
             THEN [st EXCEPT !.fatal = TRUE]
             ELSE [st EXCEPT !.c.Packets = packets]

\* createPacket, returning without a packet when serialization fails
createPacketSkipsOnError(st, sender, receiver, payload) ==
    IF st.fatal THEN st
    ELSE LET frame == BuildFrame(st.peer[sender], st.peer[receiver], payload)
             old == st.c.Packets
             packets == [i \in 1..(Len(old) + 1) |->
                           IF i <= Len(old) THEN old[i] ELSE frame]
         IN  IF SerializeError(frame)
             THEN st
             ELSE [st EXCEPT !.c.Packets = packets]

createPacket(st, sender, receiver, payload) ==
    IF st.fatal THEN st
    ELSE LET frame == BuildFrame(st.peer[sender], st.peer[receiver], payload)
             old == st.c.Packets
             packets == [i \in 1..(Len(old) + 1) |->
                           IF i <= Len(old) THEN old[i] ELSE frame]
         IN  IF SerializeError(frame)
             THEN [st EXCEPT !.fatal = TRUE]
             ELSE [st EXCEPT !.c.Packets = packets]

\* p.Flags.SYN = syn; p.Flags.ACK = ack; p.Flags.FIN = fin
SetFlags(st, id, syn, ack, fin) ==
    IF st.fatal THEN st
    ELSE [st EXCEPT !.peer[id].Flags = [SYN |-> syn, ACK |-> ack, FIN |-> fin]]

\* p.Ack = v
SetAck(st, id, v) ==
    IF st.fatal THEN st ELSE [st EXCEPT !.peer[id].Ack = v]

\* p.Options = o
SetPeerOptions(st, id, o) ==
    IF st.fatal THEN st ELSE [st EXCEPT !.peer[id].Options = o]

\* p.Seq += n, applied twice
IncSeqTwice(st, id, n) ==
    IF st.fatal THEN st ELSE [st EXCEPT !.peer[id].Seq = Add32(Add32(@, n), n)]

\* p.Seq += n
IncSeq(st, id, n) ==
    IF st.fatal THEN st ELSE [st EXCEPT !.peer[id].Seq = Add32(@, n)]

\* uint32(len(payload))
PayloadLen(payload) == Len(Elems(payload))

(***************************************************************************)
(* Connect, Send, Disconnect: statement by statement.                      *)
(***************************************************************************)
\* Connect, with only the client switched to the ACK options
ConnectServerKeepsOptions(st) ==
    LET cl == st.c.Client
        sv == st.c.Server
        s1 == SetFlags(st, cl, TRUE, FALSE, FALSE)
        s2 == SetAck(s1, cl, Zero32)
        s3 == SetPeerOptions(s2, cl, s2.c.Options.SYN)
        s4 == createPacket(s3, cl, sv, NilSlice)
        s5 == IncSeq(s4, cl, 1)
        s6 == SetFlags(s5, sv, TRUE, TRUE, FALSE)
        s7 == SetAck(s6, sv, s6.peer[cl].Seq)
        s8 == SetPeerOptions(s7, sv, s7.c.Options.SYNACK)
        s9 == createPacket(s8, sv, cl, NilSlice)
        s10 == IncSeq(s9, sv, 1)
        s11 == SetPeerOptions(s10, cl, s10.c.Options.ACK)
        s13 == SetFlags(s11, cl, FALSE, TRUE, FALSE)
        s14 == SetAck(s13, cl, s13.peer[sv].Seq)
    IN  createPacket(s14, cl, sv, NilSlice)

\* Connect, without resetting the client's acknowledgment number for the SYN
ConnectKeepsAck(st) ==
    LET cl == st.c.Client
        sv == st.c.Server
        s1 == SetFlags(st, cl, TRUE, FALSE, FALSE)
        s3 == SetPeerOptions(s1, cl, s1.c.Options.SYN)
        s4 == createPacket(s3, cl, sv, NilSlice)
        s5 == IncSeq(s4, cl, 1)
        s6 == SetFlags(s5, sv, TRUE, TRUE, FALSE)
        s7 == SetAck(s6, sv, s6.peer[cl].Seq)
        s8 == SetPeerOptions(s7, sv, s7.c.Options.SYNACK)
        s9 == createPacket(s8, sv, cl, NilSlice)
        s10 == IncSeq(s9, sv, 1)
        s11 == SetPeerOptions(s10, cl, s10.c.Options.ACK)
        s12 == SetPeerOptions(s11, sv, s11.c.Options.ACK)
        s13 == SetFlags(s12, cl, FALSE, TRUE, FALSE)
        s14 == SetAck(s13, cl, s13.peer[sv].Seq)
    IN  createPacket(s14, cl, sv, NilSlice)

\* Connect, with the final ACK advancing the client's sequence number
ConnectAckAdvances(st) ==
    LET cl == st.c.Client
        sv == st.c.Server
        s1 == SetFlags(st, cl, TRUE, FALSE, FALSE)
        s2 == SetAck(s1, cl, Zero32)
        s3 == SetPeerOptions(s2, cl, s2.c.Options.SYN)
        s4 == createPacket(s3, cl, sv, NilSlice)
        s5 == IncSeq(s4, cl, 1)
        s6 == SetFlags(s5, sv, TRUE, TRUE, FALSE)
        s7 == SetAck(s6, sv, s6.peer[cl].Seq)
        s8 == SetPeerOptions(s7, sv, s7.c.Options.SYNACK)
        s9 == createPacket(s8, sv, cl, NilSlice)
        s10 == IncSeq(s9, sv, 1)
        s11 == SetPeerOptions(s10, cl, s10.c.Options.ACK)
        s12 == SetPeerOptions(s11, sv, s11.c.Options.ACK)
        s13 == SetFlags(s12, cl, FALSE, TRUE, FALSE)
        s14 == SetAck(s13, cl, s13.peer[sv].Seq)
        s15 == createPacket(s14, cl, sv, NilSlice)
    IN  IncSeq(s15, cl, 1)

Connect(st) ==
    LET cl == st.c.Client
        sv == st.c.Server
        \* create fake SYN packet
        s1 == SetFlags(st, cl, TRUE, FALSE, FALSE)
        s2 == SetAck(s1, cl, Zero32)
        s3 == SetPeerOptions(s2, cl, s2.c.Options.SYN)
        s4 == createPacket(s3, cl, sv, NilSlice)
        s5 == IncSeq(s4, cl, 1)
        \* create fake SYN, ACK packet
        s6 == SetFlags(s5, sv, TRUE, TRUE, FALSE)
        s7 == SetAck(s6, sv, s6.peer[cl].Seq)
        s8 == SetPeerOptions(s7, sv, s7.c.Options.SYNACK)
        s9 == createPacket(s8, sv, cl, NilSlice)
        s10 == IncSeq(s9, sv, 1)
        \* switch client and server to the ACK options
        s11 == SetPeerOptions(s10, cl, s10.c.Options.ACK)
        s12 == SetPeerOptions(s11, sv, s11.c.Options.ACK)
        \* create fake ACK packet
        s13 == SetFlags(s12, cl, FALSE, TRUE, FALSE)
        s14 == SetAck(s13, cl, s13.peer[sv].Seq)
    IN  createPacket(s14, cl, sv, NilSlice)

\* Send, with the receiver's acknowledgment number taken before the sender's
\* sequence number advances
SendStaleAck(st, sender, receiver, payload) ==
    LET s1 == SetFlags(st, sender, FALSE, TRUE, FALSE)
        s2 == SetAck(s1, sender, s1.peer[receiver].Seq)
        s3 == createPacket(s2, sender, receiver, payload)
        s5 == SetFlags(s3, receiver, FALSE, TRUE, FALSE)
        s6 == SetAck(s5, receiver, s5.peer[sender].Seq)
        s7 == IncSeq(s6, sender, PayloadLen(payload))
    IN  createPacket(s7, receiver, sender, NilSlice)

\* Send, with the payload passed to createPacket for the ACK packet as well
SendAckCarriesPayload(st, sender, receiver, payload) ==
    LET s1 == SetFlags(st, sender, FALSE, TRUE, FALSE)
        s2 == SetAck(s1, sender, s1.peer[receiver].Seq)
        s3 == createPacket(s2, sender, receiver, payload)
        s4 == IncSeq(s3, sender, PayloadLen(payload))
        s5 == SetFlags(s4, receiver, FALSE, TRUE, FALSE)
        s6 == SetAck(s5, receiver, s5.peer[sender].Seq)
    IN  createPacket(s6, receiver, sender, payload)

\* Send, with the receiver's sequence number advancing as well
SendAdvancesReceiver(st, sender, receiver, payload) ==
    LET s1 == SetFlags(st, sender, FALSE, TRUE, FALSE)
        s2 == SetAck(s1, sender, s1.peer[receiver].Seq)
        s3 == createPacket(s2, sender, receiver, payload)
        s4 == IncSeq(s3, sender, PayloadLen(payload))
        s5 == SetFlags(s4, receiver, FALSE, TRUE, FALSE)
        s6 == SetAck(s5, receiver, s5.peer[sender].Seq)
        s7 == createPacket(s6, receiver, sender, NilSlice)
    IN  IncSeq(s7, receiver, PayloadLen(payload))

\* Send, returning early without any frame when the payload is empty
SendSkipsEmpty(st, sender, receiver, payload) ==
    LET s1 == SetFlags(st, sender, FALSE, TRUE, FALSE)
        s2 == SetAck(s1, sender, s1.peer[receiver].Seq)
        s3 == createPacket(s2, sender, receiver, payload)
        s4 == IncSeq(s3, sender, PayloadLen(payload))
        s5 == SetFlags(s4, receiver, FALSE, TRUE, FALSE)
        s6 == SetAck(s5, receiver, s5.peer[sender].Seq)
    IN  IF PayloadLen(payload) = 0 THEN st
        ELSE createPacket(s6, receiver, sender, NilSlice)

Send(st, sender, receiver, payload) ==
    LET \* create fake payload packet
        s1 == SetFlags(st, sender, FALSE, TRUE, FALSE)
        s2 == SetAck(s1, sender, s1.peer[receiver].Seq)
        s3 == createPacket(s2, sender, receiver, payload)
        s4 == IncSeq(s3, sender, PayloadLen(payload))
        \* create fake ACK packet
        s5 == SetFlags(s4, receiver, FALSE, TRUE, FALSE)
        s6 == SetAck(s5, receiver, s5.peer[sender].Seq)
    IN  createPacket(s6, receiver, sender, NilSlice)

\* Disconnect, with FIN left set on the final ACK packet
DisconnectFinStays(st) ==
    LET cl == st.c.Client
        sv == st.c.Server
        s1 == SetFlags(st, cl, FALSE, TRUE, TRUE)
        s2 == SetAck(s1, cl, s1.peer[sv].Seq)
        s3 == createPacket(s2, cl, sv, NilSlice)
        s4 == IncSeq(s3, cl, 1)
        s5 == SetFlags(s4, sv, FALSE, TRUE, TRUE)
        s6 == SetAck(s5, sv, s5.peer[cl].Seq)
        s7 == createPacket(s6, sv, cl, NilSlice)
        s8 == IncSeq(s7, sv, 1)
        s9 == SetFlags(s8, cl, FALSE, TRUE, TRUE)
        s10 == SetAck(s9, cl, s9.peer[sv].Seq)
    IN  createPacket(s10, cl, sv, NilSlice)

\* Disconnect, with the final ACK packet carrying the acknowledgment number
\* of the client's FIN packet
DisconnectStaleFinalAck(st) ==
    LET cl == st.c.Client
        sv == st.c.Server
        s1 == SetFlags(st, cl, FALSE, TRUE, TRUE)
        s2 == SetAck(s1, cl, s1.peer[sv].Seq)
        s3 == createPacket(s2, cl, sv, NilSlice)
        s4 == IncSeq(s3, cl, 1)
        s5 == SetFlags(s4, sv, FALSE, TRUE, TRUE)
        s6 == SetAck(s5, sv, s5.peer[cl].Seq)
        s7 == createPacket(s6, sv, cl, NilSlice)
        s8 == IncSeq(s7, sv, 1)
        s9 == SetFlags(s8, cl, FALSE, TRUE, FALSE)
    IN  createPacket(s9, cl, sv, NilSlice)

\* Disconnect, without the final ACK packet
DisconnectNoFinalAck(st) ==
    LET cl == st.c.Client
        sv == st.c.Server
        s1 == SetFlags(st, cl, FALSE, TRUE, TRUE)
        s2 == SetAck(s1, cl, s1.peer[sv].Seq)
        s3 == createPacket(s2, cl, sv, NilSlice)
        s4 == IncSeq(s3, cl, 1)
        s5 == SetFlags(s4, sv, FALSE, TRUE, TRUE)
        s6 == SetAck(s5, sv, s5.peer[cl].Seq)
        s7 == createPacket(s6, sv, cl, NilSlice)
        s8 == IncSeq(s7, sv, 1)
        s9 == SetFlags(s8, cl, FALSE, TRUE, FALSE)
    IN  SetAck(s9, cl, s9.peer[sv].Seq)

\* Disconnect, with the server's FIN not advancing its sequence number
DisconnectServerFinFree(st) ==
    LET cl == st.c.Client
        sv == st.c.Server
        s1 == SetFlags(st, cl, FALSE, TRUE, TRUE)
        s2 == SetAck(s1, cl, s1.peer[sv].Seq)
        s3 == createPacket(s2, cl, sv, NilSlice)
        s4 == IncSeq(s3, cl, 1)
        s5 == SetFlags(s4, sv, FALSE, TRUE, TRUE)
        s6 == SetAck(s5, sv, s5.peer[cl].Seq)
        s7 == createPacket(s6, sv, cl, NilSlice)
        s9 == SetFlags(s7, cl, FALSE, TRUE, FALSE)
        s10 == SetAck(s9, cl, s9.peer[sv].Seq)
    IN  createPacket(s10, cl, sv, NilSlice)

Disconnect(st) ==
    LET cl == st.c.Client
        sv == st.c.Server
        \* create fake FIN, ACK packet
        s1 == SetFlags(st, cl, FALSE, TRUE, TRUE)
        s2 == SetAck(s1, cl, s1.peer[sv].Seq)
        s3 == createPacket(s2, cl, sv, NilSlice)
        s4 == IncSeq(s3, cl, 1)
        \* create fake FIN, ACK packet
        s5 == SetFlags(s4, sv, FALSE, TRUE, TRUE)
        s6 == SetAck(s5, sv, s5.peer[cl].Seq)
        s7 == createPacket(s6, sv, cl, NilSlice)
        s8 == IncSeq(s7, sv, 1)
        \* create fake ACK packet
        s9 == SetFlags(s8, cl, FALSE, TRUE, FALSE)
        s10 == SetAck(s9, cl, s9.peer[sv].Seq)
    IN  createPacket(s10, cl, sv, NilSlice)

(***************************************************************************)
(* The state machine: a script constructs two peers and a connection,      *)
(* may store option lists in Conn.Options, and then calls Connect, Send    *)
(* and Disconnect in any order.  hist is the log of the calls made.        *)
(***************************************************************************)
LifecycleOps == {"Connect", "Send", "Disconnect"}

\* the number of Connect/Send/Disconnect calls made so far
NOps == Cardinality({i \in DOMAIN hist : hist[i].op \in LifecycleOps})

Call(op, args) == [op |-> op, args |-> args]

HasConn == conn # <<>>

\* the Conn, once constructed
C == conn[1]

\* the machine state the lifecycle operations start from
Cur == [peer |-> peer, c |-> C, fatal |-> FALSE]

\* a Listener with all fields zero, and no Loop running
NoListener ==
    [PacketHandler |-> FALSE, Timer |-> 0, TimerHandler |-> FALSE,
     File |-> FALSE, MaxPkts |-> 0, MaxTime |-> 0]

NotListening ==
    /\ listener = NoListener
    /\ lpc = "idle"
    /\ ticker = "unset"
    /\ stop = "unset"
    /\ count = 0
    /\ packetSource = [queue |-> <<>>, eof |-> FALSE]
    /\ now = 0
    /\ handled = <<>>
    /\ timerCalls = 0
    /\ event = "none"

Init ==
    /\ peer = <<>>
    /\ conn = <<>>
    /\ status = "running"
    /\ hist = <<>>
    /\ NotListening

\* id := NewPeer(mac, ip, port, isn)
NewPeerAct(id) ==
    /\ status = "running"
    /\ id \notin DOMAIN peer
    /\ id = "server" => "client" \in DOMAIN peer
    /\ ~HasConn
    /\ \E in \in PeerInputs(id) :
          LET r == NewPeer(in[1], in[2], in[3], in[4])
          IN  /\ peer' = IF r.fatal THEN peer ELSE (id :> r.p) @@ peer
              /\ status' = IF r.fatal THEN "exited" ELSE "running"
              /\ hist' = Append(hist, Call("NewPeer", <<id>> \o in))
    /\ UNCHANGED <<conn, lvars>>

\* conn := NewConn(client, server)
NewConnAct ==
    /\ status = "running"
    /\ DOMAIN peer = PeerIds
    /\ ~HasConn
    /\ conn' = <<NewConn("client", "server")>>
    /\ hist' = Append(hist, Call("NewConn", <<"client", "server">>))
    /\ UNCHANGED <<peer, status, lvars>>

\* conn.Options.SYN, conn.Options.SYNACK, conn.Options.ACK = ...
SetOptionsAct ==
    /\ status = "running"
    /\ HasConn
    /\ hist[Len(hist)].op = "NewConn"
    /\ \E o \in OptionConfigs :
          /\ conn' = <<[C EXCEPT !.Options = o]>>
          /\ hist' = Append(hist, Call("SetOptions", <<o>>))
    /\ UNCHANGED <<peer, status, lvars>>

\* the effect of a lifecycle call that took Cur to the machine state r
Return(r) ==
    /\ peer' = r.peer
    /\ conn' = <<r.c>>
    /\ status' = IF r.fatal THEN "exited" ELSE "running"
    /\ UNCHANGED lvars

ConnectAct ==
    /\ status = "running"
    /\ HasConn
    /\ NOps < MaxOps
    /\ Return(Connect(Cur))
    /\ hist' = Append(hist, Call("Connect", <<>>))

SendAct ==
    /\ status = "running"
    /\ HasConn
    /\ NOps < MaxOps
    /\ \E pair \in SendPairs, payload \in Payloads :
          /\ Return(Send(Cur, pair[1], pair[2], payload))
          /\ hist' = Append(hist, Call("Send", <<pair[1], pair[2], payload>>))

DisconnectAct ==
    /\ status = "running"
    /\ HasConn
    /\ NOps < MaxOps
    /\ Return(Disconnect(Cur))
    /\ hist' = Append(hist, Call("Disconnect", <<>>))

Next ==
    \/ \E id \in PeerIds : NewPeerAct(id)
    \/ NewConnAct
    \/ SetOptionsAct
    \/ ConnectAct
    \/ SendAct
    \/ DisconnectAct

Spec == Init /\ [][Next]_vars

(***************************************************************************)
(* Listener.Loop.  A handler field is TRUE when a handler is set; File is  *)
(* TRUE when the packets are read from a pcap file, which ends, and FALSE  *)
(* when they are captured from a device.  The packet source numbers the    *)
(* packets in the order it observes them.  A channel of the time package   *)
(* is "nil" or "never" when nothing is ever sent on it, "armed" while its  *)
(* timer runs and "fired" when a time value waits in it.                   *)
(***************************************************************************)
\* the Listeners the loop is run with
Listeners ==
    [PacketHandler : BOOLEAN, Timer : {-1, 0, 2}, TimerHandler : BOOLEAN,
     File : BOOLEAN, MaxPkts : {-1, 0, 2}, MaxTime : {0, 3}]

\* time.Tick(d): a nil channel when d <= 0
Tick(d) == IF d <= 0 THEN "nil" ELSE "armed"

\* stop := make(<-chan time.Time), without the time.After for l.MaxTime > 0
StopNever(d) == "never"

\* stop := make(<-chan time.Time); if l.MaxTime > 0 { stop = time.After(...) }
StopAfter(d) == IF d > 0 THEN "armed" ELSE "never"

\* l.MaxPkts > 0 && c == l.MaxPkts + 1
ReachedOnePastMaxPkts(c) == listener.MaxPkts > 0 /\ c = listener.MaxPkts + 1

\* l.MaxPkts > 0 && count == l.MaxPkts, for count = c
ReachedMaxPkts(c) == listener.MaxPkts > 0 /\ c = listener.MaxPkts

\* the number of packets the packet source has observed so far
Arrived == Len(handled) + Len(packetSource.queue)

LoopInit ==
    /\ peer = <<>>
    /\ conn = <<>>
    /\ status = "running"
    /\ hist = <<>>
    /\ listener \in Listeners
    /\ lpc = "start"
    /\ ticker = "unset"
    /\ stop = "unset"
    /\ count = 0
    /\ packetSource = [queue |-> <<>>, eof |-> FALSE]
    /\ now = 0
    /\ handled = <<>>
    /\ timerCalls = 0
    /\ event = "none"

\* Loop, up to the for statement: the handler checks with their log.Fatal,
\* and the ticker and stop channels
LoopStart ==
    /\ lpc = "start"
    /\ ticker' = IF listener.PacketHandler THEN Tick(listener.Timer) ELSE ticker
    /\ LET fatal == \/ ~listener.PacketHandler
                    \/ (ticker' # "nil" /\ ~listener.TimerHandler)
       IN  /\ lpc' = IF fatal THEN "exited" ELSE "select"
           /\ stop' = IF fatal THEN stop ELSE StopAfter(listener.MaxTime)
    /\ count' = 0
    /\ event' = "start"
    /\ UNCHANGED <<listener, packetSource, now, handled, timerCalls, tcpvars>>

\* the packet source observes a packet and sends it on its channel
PacketArrives ==
    /\ lpc = "select"
    /\ ~packetSource.eof
    /\ Arrived < MaxArrivals
    /\ packetSource' =
          [packetSource EXCEPT !.queue = Append(@, Arrived + 1)]
    /\ event' = "arrival"
    /\ UNCHANGED <<listener, lpc, ticker, stop, count, now, handled,
                   timerCalls, tcpvars>>

\* the packet source reaches the end of the pcap file and closes its channel
SourceEnds ==
    /\ lpc = "select"
    /\ listener.File
    /\ ~packetSource.eof
    /\ packetSource' = [packetSource EXCEPT !.eof = TRUE]
    /\ event' = "eof"
    /\ UNCHANGED <<listener, lpc, ticker, stop, count, now, handled,
                   timerCalls, tcpvars>>

\* time passes: the ticker fires every l.Timer, the stop timer at l.MaxTime
ClockAdvances ==
    /\ lpc = "select"
    /\ now < MaxClock
    /\ now' = now + 1
    /\ ticker' = IF ticker # "nil" /\ now' % listener.Timer = 0
                 THEN "fired" ELSE ticker
    /\ stop' = IF stop = "armed" /\ now' >= listener.MaxTime
               THEN "fired" ELSE stop
    /\ event' = "clock"
    /\ UNCHANGED <<listener, lpc, count, packetSource, handled, timerCalls,
                   tcpvars>>

\* case packet := <-packets, with a packet in the channel
PacketCase ==
    /\ lpc = "select"
    /\ packetSource.queue # <<>>
    /\ packetSource' = [packetSource EXCEPT !.queue = Tail(@)]
    /\ handled' = Append(handled, Head(packetSource.queue))
    /\ count' = count + 1
    /\ lpc' = IF ReachedMaxPkts(count') THEN "returned" ELSE "select"
    /\ event' = "packet"
    /\ UNCHANGED <<listener, ticker, stop, now, timerCalls, tcpvars>>

\* case packet := <-packets, with the channel closed and empty: packet == nil
NilPacketCase ==
    /\ lpc = "select"
    /\ packetSource.queue = <<>>
    /\ packetSource.eof
    /\ lpc' = "returned"
    /\ event' = "nil"
    /\ UNCHANGED <<listener, ticker, stop, count, packetSource, now, handled,
                   timerCalls, tcpvars>>

\* case <-ticker
TickerCase ==
    /\ lpc = "select"
    /\ ticker = "fired"
    /\ ticker' = "armed"
    /\ timerCalls' = timerCalls + 1
    /\ event' = "timer"
    /\ UNCHANGED <<listener, lpc, stop, count, packetSource, now, handled,
                   tcpvars>>

\* case <-stop
StopCase ==
    /\ lpc = "select"
    /\ stop = "fired"
    /\ lpc' = "returned"
    /\ stop' = "never"
    /\ event' = "stop"
    /\ UNCHANGED <<listener, ticker, count, packetSource, now, handled,
                   timerCalls, tcpvars>>

LoopNext ==
    \/ LoopStart
    \/ PacketArrives
    \/ SourceEnds
    \/ ClockAdvances
    \/ PacketCase
    \/ NilPacketCase
    \/ TickerCase
    \/ StopCase

LoopSpec == LoopInit /\ [][LoopNext]_vars

\* Loop under fair selection: time keeps passing while the clock can advance,
\* and select does not pass over the stop channel forever once a value waits
\* in it (select chooses among its ready cases at random); when and whether
\* packets arrive, the file ends, and the packet and ticker cases are chosen
\* is left open
LoopFairSpec ==
    /\ LoopSpec
    /\ WF_vars(ClockAdvances)
    /\ WF_vars(StopCase)

(***************************************************************************)
(* Vocabulary of the properties.                                           *)
(***************************************************************************)
\* the successor of a uint32, wrapping from 2^32 - 1 to 0
Succ32(x) ==
    IF x[2] < Limb - 1 THEN <<x[1], x[2] + 1>>
    ELSE IF x[1] < Limb - 1 THEN <<x[1] + 1, 0>>
    ELSE <<0, 0>>

\* x advanced n times
RECURSIVE Plus32(_, _)
Plus32(x, n) == IF n = 0 THEN x ELSE Plus32(Succ32(x), n - 1)

\* the last call of the log
LastCall == hist[Len(hist)]

\* this step is a call of op
Step(op) == hist' # hist /\ hist'[Len(hist')].op = op

\* the arguments of the call this step makes
StepArgs == hist'[Len(hist')].args

\* the packet store before and after a step
Packets == C.Packets

PacketsAfter == conn'[1].Packets

\* the frames a step appends, in order
Appended == SubSeq(PacketsAfter, Len(Packets) + 1, Len(PacketsAfter))

\* the initial sequence number NewPeer was given for peer id
IsnOf(id) ==
    hist[CHOOSE i \in DOMAIN hist :
            hist[i].op = "NewPeer" /\ hist[i].args[1] = id].args[5]

\* a peer with a 6-byte hardware address and an IPv4 address
ValidPeer(p) == Len(p.MAC) = 6 /\ Len(p.IP) = 4

ValidPeers == \A id \in DOMAIN peer : ValidPeer(peer[id])

\* frame f goes from peer p to peer q
FromTo(f, p, q) ==
    /\ f.SrcMAC = p.MAC /\ f.DstMAC = q.MAC
    /\ f.SrcIP = p.IP /\ f.DstIP = q.IP
    /\ f.SrcPort = p.Port /\ f.DstPort = q.Port

\* the flags of frame f are exactly these
Flags(f, syn, ack, fin) == f.SYN = syn /\ f.ACK = ack /\ f.FIN = fin

\* the number of payload bytes of a payload argument
ArgLen(payload) == IF payload = <<>> THEN 0 ELSE Len(payload[1])

(***************************************************************************)
(* C1: on a fresh connection between two valid peers with initial sequence *)
(* numbers c0 and s0, Connect appends exactly the 3 frames SYN             *)
(* (client->server), SYN-ACK (server->client), ACK (client->server), and   *)
(* returns with client.Seq = c0 + 1 and server.Seq = s0 + 1.               *)
(***************************************************************************)
C1_ConnectHandshake ==
    (HasConn /\ NOps = 1 /\ LastCall.op = "Connect" /\ ValidPeers) =>
        LET cl == peer["client"]
            sv == peer["server"]
        IN  /\ status = "running"
            /\ Len(Packets) = 3
            /\ FromTo(Packets[1], cl, sv) /\ Flags(Packets[1], TRUE, FALSE, FALSE)
            /\ FromTo(Packets[2], sv, cl) /\ Flags(Packets[2], TRUE, TRUE, FALSE)
            /\ FromTo(Packets[3], cl, sv) /\ Flags(Packets[3], FALSE, TRUE, FALSE)
            /\ cl.Seq = Succ32(IsnOf("client"))
            /\ sv.Seq = Succ32(IsnOf("server"))

\* a fresh connection between valid peers has been connected
C1_Witness ==
    /\ HasConn /\ NOps = 1 /\ LastCall.op = "Connect" /\ ValidPeers
    /\ Len(Packets) = 3
    /\ IsnOf("client") = Max32

(***************************************************************************)
(* C2: Send(sender, receiver, payload) between the two peers appends       *)
(* exactly 2 frames, the data frame sender->receiver and then the          *)
(* acknowledgment receiver->sender, both with only ACK set, and advances   *)
(* sender.Seq by the payload length (by 0 for an empty payload).           *)
(***************************************************************************)
C2_SendDataAck ==
    [][(HasConn /\ Step("Send") /\ ValidPeers /\ StepArgs[1] # StepArgs[2]) =>
        LET s == StepArgs[1]
            r == StepArgs[2]
            L == ArgLen(StepArgs[3])
        IN  /\ status' = "running"
            /\ Len(PacketsAfter) = Len(Packets) + 2
            /\ FromTo(Appended[1], peer[s], peer[r])
            /\ Flags(Appended[1], FALSE, TRUE, FALSE)
            /\ FromTo(Appended[2], peer[r], peer[s])
            /\ Flags(Appended[2], FALSE, TRUE, FALSE)
            /\ peer'[s].Seq = Plus32(peer[s].Seq, L)
            /\ (L = 0 => peer'[s].Seq = peer[s].Seq)]_vars

\* the server has sent an empty payload to the client, after the client has
\* sent "abc" to the server
C2_Witness ==
    /\ HasConn /\ NOps >= 2 /\ ValidPeers /\ status = "running"
    /\ LastCall = Call("Send", <<"server", "client", Slice(<<>>)>>)
    /\ hist[Len(hist) - 1] = Call("Send", <<"client", "server", Slice(Bytes(3))>>)

(***************************************************************************)
(* C3: Disconnect between two valid peers appends exactly the 3 frames     *)
(* FIN-ACK (client->server), FIN-ACK (server->client), ACK                 *)
(* (client->server); client.Seq and server.Seq each advance by exactly 1.  *)
(***************************************************************************)
C3_DisconnectTeardown ==
    [][(HasConn /\ Step("Disconnect") /\ ValidPeers) =>
        LET cl == peer["client"]
            sv == peer["server"]
        IN  /\ status' = "running"
            /\ Len(PacketsAfter) = Len(Packets) + 3
            /\ FromTo(Appended[1], cl, sv) /\ Flags(Appended[1], FALSE, TRUE, TRUE)
            /\ FromTo(Appended[2], sv, cl) /\ Flags(Appended[2], FALSE, TRUE, TRUE)
            /\ FromTo(Appended[3], cl, sv) /\ Flags(Appended[3], FALSE, TRUE, FALSE)
            /\ peer'["client"].Seq = Succ32(cl.Seq)
            /\ peer'["server"].Seq = Succ32(sv.Seq)]_vars

\* a connected connection between valid peers has been disconnected
C3_Witness ==
    /\ HasConn /\ NOps = 2 /\ ValidPeers /\ status = "running"
    /\ hist[Len(hist) - 1].op = "Connect"
    /\ LastCall.op = "Disconnect"
    /\ Len(Packets) = 6

\* this step is a lifecycle call that returned
Returned == HasConn /\ hist' # hist /\ hist'[Len(hist')].op \in LifecycleOps
            /\ status' = "running"

\* for the frames a lifecycle step appends, in order: the sequence number
\* the frame's receiver has at the moment the frame is synthesized, which is
\* its value immediately after the receiver's most recent increment
ReceiverSeqAtSynthesis ==
    LET cl == peer["client"].Seq
        sv == peer["server"].Seq
    IN  IF Step("Send")
        THEN <<peer[StepArgs[2]].Seq,
               Plus32(peer[StepArgs[1]].Seq, ArgLen(StepArgs[3]))>>
        ELSE <<sv, Succ32(cl), Succ32(sv)>>

(***************************************************************************)
(* C4 as claimed: every frame appended by Connect, Send or Disconnect      *)
(* carries as acknowledgment number the current sequence number of its     *)
(* counterpart.  The SYN frame of Connect refutes it.                      *)
(***************************************************************************)
C4_EveryFrameAcksCounterpart ==
    [][Returned =>
        /\ Len(Appended) = Len(ReceiverSeqAtSynthesis)
        /\ \A i \in 1..Len(Appended) :
              Appended[i].Ack = ReceiverSeqAtSynthesis[i]]_vars

(***************************************************************************)
(* C4 as amended: every appended frame other than the SYN frame of Connect *)
(* carries as acknowledgment number the sequence number its receiver has   *)
(* at the moment of synthesis (never a stale one); the SYN frame carries   *)
(* the acknowledgment number 0.                                            *)
(***************************************************************************)
C4_AckFramesAckCounterpart ==
    [][Returned =>
        /\ Len(Appended) = Len(ReceiverSeqAtSynthesis)
        /\ \A i \in 1..Len(Appended) :
              Appended[i].Ack =
                  IF Step("Connect") /\ i = 1 THEN Zero32
                  ELSE ReceiverSeqAtSynthesis[i]]_vars

\* Connect, a Send of "abc" and Disconnect have returned, the server having
\* started from a sequence number other than 0
C4_Witness ==
    /\ HasConn /\ NOps = 3 /\ status = "running"
    /\ IsnOf("server") = Lit32(500)
    /\ hist[Len(hist) - 2].op = "Connect"
    /\ hist[Len(hist) - 1] = Call("Send", <<"client", "server", Slice(Bytes(3))>>)
    /\ LastCall.op = "Disconnect"

(***************************************************************************)
(* C5: the three frames of Connect carry the connection's SYN, SYN-ACK and *)
(* ACK option lists, in this order; every frame Send or Disconnect appends *)
(* after a Connect has returned carries the ACK option list.               *)
(***************************************************************************)
\* a Connect has returned before this step
Connected == \E i \in DOMAIN hist : hist[i].op = "Connect"

C5_OptionScoping ==
    [][Returned =>
        IF Step("Connect")
        THEN /\ Len(Appended) = 3
             /\ Appended[1].Options = Elems(C.Options.SYN)
             /\ Appended[2].Options = Elems(C.Options.SYNACK)
             /\ Appended[3].Options = Elems(C.Options.ACK)
        ELSE Connected =>
                /\ Len(Appended) > 0
                /\ \A i \in 1..Len(Appended) :
                      Appended[i].Options = Elems(C.Options.ACK)]_vars

\* with three different option lists configured, the server has sent data
\* after Connect
C5_Witness ==
    /\ HasConn /\ NOps = 2 /\ status = "running"
    /\ C.Options.SYN # C.Options.SYNACK
    /\ C.Options.SYNACK # C.Options.ACK
    /\ ~IsNil(C.Options.SYNACK)
    /\ hist[Len(hist) - 1].op = "Connect"
    /\ LastCall = Call("Send", <<"server", "client", Slice(Bytes(3))>>)

(***************************************************************************)
(* C6: Connect, Send(client, server, "abc"), Disconnect on a fresh         *)
(* connection with initial sequence numbers 100 and 500 yields, on every   *)
(* run, the same 8 frames with the same directions, flags, sequence and    *)
(* acknowledgment numbers and payloads, and the same final peer state.     *)
(***************************************************************************)
IsLifecycle(h) == h.op \in LifecycleOps

\* the script of C6 has run to its end
C6_ScriptDone ==
    /\ HasConn /\ status = "running"
    /\ IsnOf("client") = Lit32(100)
    /\ IsnOf("server") = Lit32(500)
    /\ SelectSeq(hist, IsLifecycle)
         = << Call("Connect", <<>>),
              Call("Send", <<"client", "server", Slice(Bytes(3))>>),
              Call("Disconnect", <<>>) >>

\* <<from, SYN, ACK, FIN, seq, ack, payload length>> of the 8 frames
C6_Expected ==
    << <<"client", TRUE, FALSE, FALSE, 100, 0, 0>>,
       <<"server", TRUE, TRUE, FALSE, 500, 101, 0>>,
       <<"client", FALSE, TRUE, FALSE, 101, 501, 0>>,
       <<"client", FALSE, TRUE, FALSE, 101, 501, 3>>,
       <<"server", FALSE, TRUE, FALSE, 501, 104, 0>>,
       <<"client", FALSE, TRUE, TRUE, 104, 501, 0>>,
       <<"server", FALSE, TRUE, TRUE, 501, 105, 0>>,
       <<"client", FALSE, TRUE, FALSE, 105, 502, 0>> >>

C6_DeterministicScript ==
    C6_ScriptDone =>
        /\ Len(Packets) = 8
        /\ \A i \in 1..8 :
              LET f == Packets[i]
                  e == C6_Expected[i]
                  to == IF e[1] = "client" THEN "server" ELSE "client"
              IN  /\ FromTo(f, peer[e[1]], peer[to])
                  /\ Flags(f, e[2], e[3], e[4])
                  /\ f.Seq = Lit32(e[5])
                  /\ f.Ack = Lit32(e[6])
                  /\ f.Payload = Bytes(e[7])
        /\ peer["client"].Seq = Lit32(105)
        /\ peer["client"].Ack = Lit32(502)
        /\ peer["server"].Seq = Lit32(502)
        /\ peer["server"].Ack = Lit32(105)
        /\ peer["client"].Flags = [SYN |-> FALSE, ACK |-> TRUE, FIN |-> FALSE]
        /\ peer["server"].Flags = [SYN |-> FALSE, ACK |-> TRUE, FIN |-> TRUE]

C6_Witness == C6_ScriptDone /\ Len(Packets) = 8

(***************************************************************************)
(* C7 as claimed: NewPeer with a malformed hardware address or a malformed *)
(* IPv4 address fails and produces no Peer.  NewPeer does not look at the  *)
(* result of net.ParseIP, so a malformed IPv4 address yields a Peer.       *)
(***************************************************************************)
C7_MalformedAddressNoPeer ==
    \A i \in DOMAIN hist :
        (/\ hist[i].op = "NewPeer"
         /\ (hist[i].args[2] \in BadMACs \/ hist[i].args[3] \in BadIPs))
        => hist[i].args[1] \notin DOMAIN peer

(***************************************************************************)
(* C8: a Peer that no lifecycle call has touched has the sequence number   *)
(* NewPeer was given, acknowledgment number 0, no flag set and nil         *)
(* options; a new Conn has no packets and refers to the two given peers.   *)
(***************************************************************************)
C8_FreshPeerAndConn ==
    /\ NOps = 0 =>
          \A id \in DOMAIN peer :
              /\ peer[id].Seq = IsnOf(id)
              /\ peer[id].Ack = <<0, 0>>
              /\ ~peer[id].Flags.SYN /\ ~peer[id].Flags.ACK /\ ~peer[id].Flags.FIN
              /\ peer[id].Options = <<>>
    /\ (HasConn /\ LastCall.op = "NewConn") =>
          /\ C.Packets = <<>>
          /\ C.Client = LastCall.args[1]
          /\ C.Server = LastCall.args[2]
          /\ {C.Client, C.Server} = DOMAIN peer

\* a connection has just been constructed between two peers with initial
\* sequence numbers other than 0
C8_Witness ==
    /\ HasConn /\ LastCall.op = "NewConn"
    /\ IsnOf("client") = Max32
    /\ IsnOf("server") = Lit32(500)

(***************************************************************************)
(* C9: the packet store is append-only.  Every step keeps every stored     *)
(* frame unchanged at its index, and every createPacket call that returns  *)
(* leaves the store as it was with exactly the one new frame at the end.   *)
(***************************************************************************)
C9_AppendOnly ==
    [][HasConn =>
        /\ conn' # <<>>
        /\ Len(PacketsAfter) >= Len(Packets)
        /\ \A i \in 1..Len(Packets) : PacketsAfter[i] = Packets[i]
        /\ \A s \in PeerIds, r \in PeerIds, pl \in Payloads :
              LET res == createPacket(Cur, s, r, pl)
              IN  ~res.fatal =>
                     /\ Len(res.c.Packets) = Len(Packets) + 1
                     /\ \A i \in 1..Len(Packets) : res.c.Packets[i] = Packets[i]
                     /\ res.c.Packets[Len(Packets) + 1]
                          = BuildFrame(peer[s], peer[r], pl)]_vars

\* a non-empty store has been extended
C9_Witness ==
    /\ HasConn /\ NOps = 3 /\ status = "running"
    /\ Len(Packets) = 8

(***************************************************************************)
(* C10: a peer's sequence number changes only in Connect, Send and         *)
(* Disconnect, and there only by adding 0 or 1 (Connect, Disconnect) or 0  *)
(* or the payload length (Send); it never decreases except by wrapping     *)
(* around at 2^32.                                                         *)
(***************************************************************************)
\* x <= y as uint32 values
Le32(x, y) == x[1] < y[1] \/ (x[1] = y[1] /\ x[2] <= y[2])

\* adding d to x passes 2^32
Wraps32(x, d) == x[1] = Limb - 1 /\ x[2] + d >= Limb

\* what this step may add to a sequence number
StepDeltas ==
    IF Step("Send") THEN {0, ArgLen(StepArgs[3])}
    ELSE IF Step("Connect") \/ Step("Disconnect") THEN {0, 1}
    ELSE {0}

C10_SeqOnlyAdvances ==
    [][\A id \in DOMAIN peer :
          /\ id \in DOMAIN peer'
          /\ \E d \in StepDeltas :
                /\ peer'[id].Seq = Plus32(peer[id].Seq, d)
                /\ Le32(peer[id].Seq, peer'[id].Seq) \/ Wraps32(peer[id].Seq, d)]_vars

\* the client's sequence number has wrapped around in Connect and then
\* advanced by a payload
C10_Witness ==
    /\ HasConn /\ NOps = 2 /\ status = "running"
    /\ IsnOf("client") = Max32
    /\ hist[Len(hist) - 1].op = "Connect"
    /\ LastCall = Call("Send", <<"client", "server", Slice(Bytes(3))>>)
    /\ peer["client"].Seq = Lit32(3)

(***************************************************************************)
(* C11: between valid peers every Connect, Send and Disconnect call        *)
(* returns, in whatever order the calls are made, and appends exactly 3, 2 *)
(* and 3 frames: after n Connects, m Sends and k Disconnects the store     *)
(* holds 3n + 2m + 3k frames.                                              *)
(***************************************************************************)
\* the number of calls of op made so far
Calls(op) == Cardinality({i \in DOMAIN hist : hist[i].op = op})

C11_TotalFrameCount ==
    (HasConn /\ ValidPeers) =>
        /\ status = "running"
        /\ Len(Packets)
             = 3 * Calls("Connect") + 2 * Calls("Send") + 3 * Calls("Disconnect")

\* Disconnect, then a Send, then Connect have returned
C11_Witness ==
    /\ HasConn /\ ValidPeers /\ NOps = 3 /\ status = "running"
    /\ hist[Len(hist) - 2].op = "Disconnect"
    /\ hist[Len(hist) - 1].op = "Send"
    /\ LastCall.op = "Connect"
    /\ Len(Packets) = 8

(***************************************************************************)
(* C12 as claimed: a connection passes through idle, handshaking,          *)
(* established, closing, closed in this order: Connect is the first call,  *)
(* Sends follow it, Disconnect is the last call.  Conn has no phase and no *)
(* operation has a guard, so a Send on an idle connection refutes it.      *)
(***************************************************************************)
\* the Connect/Send/Disconnect calls made so far, in order
LifecycleLog == SelectSeq(hist, IsLifecycle)

\* the calls of log are Connect, then Sends, then at most one Disconnect
InPhaseOrder(log) ==
    \A i \in DOMAIN log :
        /\ log[i].op = "Connect" <=> i = 1
        /\ log[i].op = "Disconnect" => i = Len(log)

C12_PhasesInOrder == InPhaseOrder(LifecycleLog)

(***************************************************************************)
(* C12 as amended: Connect, Send and Disconnect are the only steps that    *)
(* change the peers or the packet store of a connection, and they can be   *)
(* called in any order; when they are called in the order Connect, Sends,  *)
(* Disconnect, the store holds the 3 handshake frames first, then frames   *)
(* with only ACK set, then the 3 teardown frames, and no handshake or      *)
(* teardown frame carries data.                                            *)
(***************************************************************************)
\* frame f is a control frame with exactly these flags and no data
Control(f, syn, ack, fin) == Flags(f, syn, ack, fin) /\ f.Payload = <<>>

\* store P is what the calls of log, made in phase order, look like
PhaseShaped(P, log) ==
    LET closed == log # <<>> /\ log[Len(log)].op = "Disconnect"
        last == IF closed THEN Len(P) - 3 ELSE Len(P)
    IN  log # <<>> =>
           /\ Len(P) >= 3
           /\ Control(P[1], TRUE, FALSE, FALSE)
           /\ Control(P[2], TRUE, TRUE, FALSE)
           /\ Control(P[3], FALSE, TRUE, FALSE)
           /\ \A i \in 4..last : Flags(P[i], FALSE, TRUE, FALSE)
           /\ closed =>
                 /\ last >= 3
                 /\ Control(P[last + 1], FALSE, TRUE, TRUE)
                 /\ Control(P[last + 2], FALSE, TRUE, TRUE)
                 /\ Control(P[last + 3], FALSE, TRUE, FALSE)

C12_OnlyTransitionsAndShape ==
    [][HasConn =>
        /\ hist'[Len(hist')].op \notin LifecycleOps =>
              PacketsAfter = Packets /\ peer' = peer
        /\ (status' = "running" /\ InPhaseOrder(LifecycleLog')) =>
              PhaseShaped(PacketsAfter, LifecycleLog')]_vars

\* Connect, a Send from the server and Disconnect have returned, in this
\* order
C12_Witness ==
    /\ HasConn /\ status = "running"
    /\ LifecycleLog
         = << Call("Connect", <<>>),
              Call("Send", <<"server", "client", Slice(Bytes(3))>>),
              Call("Disconnect", <<>>) >>
    /\ PhaseShaped(Packets, LifecycleLog)

(***************************************************************************)
(* C13: every frame a lifecycle call appends is a snapshot of its sender   *)
(* at the moment of synthesis: it goes from the sender to the receiver,    *)
(* carries the flags the call has just set and the sender's sequence       *)
(* number from before the increment the frame causes (the SYN carries the  *)
(* initial sequence number), the last frame of the call equals its         *)
(* sender's fields when the call returns, and the frames stored before     *)
(* the call are unaltered by the call's changes to the peers.              *)
(***************************************************************************)
\* for the frames a lifecycle step appends, in order: sender, receiver, the
\* flags set for the frame and the sender's sequence number at synthesis
Synthesized ==
    LET cl == peer["client"].Seq
        sv == peer["server"].Seq
        E(from, to, syn, ack, fin, seq) ==
            [from |-> from, to |-> to, syn |-> syn, ack |-> ack, fin |-> fin,
             seq |-> seq]
    IN  IF Step("Send")
        THEN LET s == StepArgs[1]
                 r == StepArgs[2]
                 after == Plus32(peer[s].Seq, ArgLen(StepArgs[3]))
             IN  << E(s, r, FALSE, TRUE, FALSE, peer[s].Seq),
                    E(r, s, FALSE, TRUE, FALSE,
                      IF r = s THEN after ELSE peer[r].Seq) >>
        ELSE IF Step("Connect")
        THEN << E("client", "server", TRUE, FALSE, FALSE, cl),
                E("server", "client", TRUE, TRUE, FALSE, sv),
                E("client", "server", FALSE, TRUE, FALSE, Succ32(cl)) >>
        ELSE << E("client", "server", FALSE, TRUE, TRUE, cl),
                E("server", "client", FALSE, TRUE, TRUE, sv),
                E("client", "server", FALSE, TRUE, FALSE, Succ32(cl)) >>

C13_FrameIsSnapshot ==
    [][Returned =>
        /\ Len(Appended) = Len(Synthesized)
        /\ \A i \in 1..Len(Appended) :
              LET f == Appended[i]
                  e == Synthesized[i]
              IN  /\ FromTo(f, peer[e.from], peer[e.to])
                  /\ Flags(f, e.syn, e.ack, e.fin)
                  /\ f.Seq = e.seq
                  /\ f.Window = 64000
        /\ LET f == Appended[Len(Appended)]
               p == peer'[Synthesized[Len(Appended)].from]
           IN  /\ Flags(f, p.Flags.SYN, p.Flags.ACK, p.Flags.FIN)
               /\ f.Seq = p.Seq
               /\ f.Ack = p.Ack
        /\ SubSeq(PacketsAfter, 1, Len(Packets)) = Packets]_vars

\* a second Connect has returned on a connection that already stores the
\* frames of a first one, the client having started from sequence number 100
C13_Witness ==
    /\ HasConn /\ NOps = 2 /\ status = "running"
    /\ hist[Len(hist) - 1].op = "Connect"
    /\ LastCall.op = "Connect"
    /\ IsnOf("client") = Lit32(100)
    /\ Len(Packets) = 6
    /\ Packets[1].Seq = Lit32(100) /\ Packets[1].SYN
    /\ Packets[4].Seq = Lit32(101) /\ Packets[4].SYN
    /\ peer["client"].Seq = Lit32(102)

(***************************************************************************)
(* C14: sequence arithmetic wraps modulo 2^32.  A peer whose sequence      *)
(* number is 2^32 - 1 before its SYN or FIN has the sequence number 0      *)
(* afterwards, and the counterpart's next frame acknowledges 0; Send with  *)
(* a payload of L bytes sets the sender's sequence number to               *)
(* (seq + L) mod 2^32, and the acknowledgment frame carries that value.    *)
(***************************************************************************)
\* (x + n) mod 2^32 for 0 <= n < 2^16, by cases on the carry
Mod32Sum(x, n) ==
    IF x[2] + n < Limb THEN <<x[1], x[2] + n>>
    ELSE IF x[1] + 1 < Limb THEN <<x[1] + 1, x[2] + n - Limb>>
    ELSE <<0, x[2] + n - Limb>>

C14_SeqWraps ==
    [][Returned =>
        /\ (Step("Connect") \/ Step("Disconnect")) =>
              /\ peer["client"].Seq = Max32 =>
                    /\ peer'["client"].Seq = Zero32
                    /\ Appended[2].Ack = Zero32
              /\ peer["server"].Seq = Max32 =>
                    /\ peer'["server"].Seq = Zero32
                    /\ Appended[3].Ack = Zero32
        /\ (Step("Send") /\ StepArgs[1] # StepArgs[2]) =>
              LET s == StepArgs[1]
                  sum == Mod32Sum(peer[s].Seq, ArgLen(StepArgs[3]))
              IN  /\ peer'[s].Seq = sum
                  /\ Appended[2].Ack = sum]_vars

\* both peers started from 2^32 - 1; a Send of 3 bytes has wrapped the
\* client's sequence number to 2 and a Connect the server's to 0
C14_Witness ==
    /\ HasConn /\ NOps = 2 /\ status = "running"
    /\ IsnOf("client") = Max32 /\ IsnOf("server") = Max32
    /\ hist[Len(hist) - 1] = Call("Send", <<"client", "server", Slice(Bytes(3))>>)
    /\ LastCall.op = "Connect"
    /\ Packets[2].Ack = Lit32(2)
    /\ Packets[4].Ack = Lit32(3)
    /\ Packets[5].Ack = Zero32
    /\ peer["client"].Seq = Lit32(3) /\ peer["server"].Seq = Zero32

(***************************************************************************)
(* C15: a frame has a data segment exactly when a non-empty payload was    *)
(* passed for it.  The 3 frames of Connect, the 3 frames of Disconnect and *)
(* the second frame of Send end at the transport header; the first frame   *)
(* of Send carries exactly the payload bytes, none for a zero-length or    *)
(* nil payload.                                                            *)
(***************************************************************************)
\* the bytes of a payload argument
ArgBytes(payload) == IF payload = <<>> THEN <<>> ELSE payload[1]

C15_DataSegment ==
    [][Returned =>
        IF Step("Send")
        THEN /\ Len(Appended) = 2
             /\ Appended[1].Payload = ArgBytes(StepArgs[3])
             /\ Appended[1].Payload # <<>> <=> ArgLen(StepArgs[3]) > 0
             /\ Appended[2].Payload = <<>>
        ELSE /\ Len(Appended) = 3
             /\ \A i \in 1..3 : Appended[i].Payload = <<>>]_vars

\* the store holds the frames of a Send of 3 bytes, of a Send of a
\* zero-length payload and of a Disconnect
C15_Witness ==
    /\ HasConn /\ NOps = 3 /\ status = "running"
    /\ hist[Len(hist) - 2] = Call("Send", <<"client", "server", Slice(Bytes(3))>>)
    /\ hist[Len(hist) - 1] = Call("Send", <<"client", "server", Slice(Bytes(0))>>)
    /\ LastCall.op = "Disconnect"
    /\ Packets[1].Payload = Bytes(3)
    /\ \A i \in 2..7 : Packets[i].Payload = <<>>

(***************************************************************************)
(* C16: a serialization failure in createPacket is fatal.  The process     *)
(* exits in the failing call: no frame is appended, no sequence number     *)
(* advances, and the peer whose frame would have come next is untouched;   *)
(* nothing runs after the exit.  A lifecycle call fails only by such a     *)
(* failure, that is, only when a peer it builds a frame from has no        *)
(* 6-byte hardware address or no IPv4 address.                             *)
(***************************************************************************)
\* the peers the call of this step builds frames from
Involved ==
    IF Step("Send") THEN {StepArgs[1], StepArgs[2]} ELSE {"client", "server"}

\* the sender of the first frame of the call of this step
FirstSender == IF Step("Send") THEN StepArgs[1] ELSE "client"

C16_SerializationFatal ==
    [][/\ status = "running"
       /\ (HasConn /\ hist'[Len(hist')].op \in LifecycleOps) =>
             /\ status' = "exited" <=> \E id \in Involved : ~ValidPeer(peer[id])
             /\ status' = "exited" =>
                   /\ PacketsAfter = Packets
                   /\ \A id \in DOMAIN peer : peer'[id].Seq = peer[id].Seq
                   /\ \A id \in DOMAIN peer \ {FirstSender} :
                         peer'[id] = peer[id]]_vars

\* Disconnect has ended the process in its first createPacket, the server
\* having no IPv4 address: the client's flags are those of the FIN frame, no
\* frame is stored and no sequence number has advanced
C16_Witness ==
    /\ HasConn /\ NOps = 1 /\ status = "exited"
    /\ LastCall.op = "Disconnect"
    /\ ValidPeer(peer["client"]) /\ Len(peer["server"].IP) = 0
    /\ peer["client"].Flags = [SYN |-> FALSE, ACK |-> TRUE, FIN |-> TRUE]
    /\ peer["server"].Flags = [SYN |-> FALSE, ACK |-> FALSE, FIN |-> FALSE]
    /\ Packets = <<>>
    /\ peer["client"].Seq = IsnOf("client")
    /\ peer["server"].Seq = IsnOf("server")

(***************************************************************************)
(* C17: in the packet store, after any sequence of Connect, Send and       *)
(* Disconnect calls, no frame has both SYN and FIN set; every frame other  *)
(* than the first frame of a Connect has ACK set; the first frame of a     *)
(* Connect has SYN set, ACK clear and the acknowledgment number 0,         *)
(* whatever the client's state was before.                                 *)
(***************************************************************************)
\* the number of frames a returned call of op has stored
FramesOf(op) == IF op = "Send" THEN 2 ELSE 3

\* the number of frames the first k calls of log have stored
RECURSIVE FramesUpTo(_, _)
FramesUpTo(log, k) ==
    IF k = 0 THEN 0 ELSE FramesUpTo(log, k - 1) + FramesOf(log[k].op)

\* the positions in the store of the first frames of the Connect calls
ConnectSyns ==
    {FramesUpTo(LifecycleLog, k - 1) + 1 :
        k \in {j \in DOMAIN LifecycleLog : LifecycleLog[j].op = "Connect"}}

C17_FlagInvariant ==
    HasConn =>
        \A i \in DOMAIN Packets :
            LET f == Packets[i]
            IN  /\ ~(f.SYN /\ f.FIN)
                /\ IF i \in ConnectSyns
                   THEN f.SYN /\ ~f.ACK /\ f.Ack = Zero32
                   ELSE f.ACK

\* the store holds the frames of a Send, a Disconnect and a Connect: the
\* client had FIN and ACK set and a non-zero acknowledgment number before
\* the Connect
C17_Witness ==
    /\ HasConn /\ NOps = 3 /\ status = "running"
    /\ hist[Len(hist) - 2].op = "Send"
    /\ hist[Len(hist) - 1].op = "Disconnect"
    /\ LastCall.op = "Connect"
    /\ ConnectSyns = {6}
    /\ Packets[3].FIN /\ Packets[3].Ack # Zero32
    /\ Packets[5].Ack # Zero32
    /\ Flags(Packets[6], TRUE, FALSE, FALSE) /\ Packets[6].Ack = Zero32

(***************************************************************************)
(* C18: whenever the last call to have returned is a Connect, a Disconnect *)
(* or a Send between the two distinct peers, the client's acknowledgment   *)
(* number is the server's sequence number and the server's acknowledgment  *)
(* number is the client's sequence number, whatever calls came before.     *)
(***************************************************************************)
C18_MutualAck ==
    (/\ HasConn /\ status = "running" /\ NOps >= 1
     /\ LastCall.op = "Send" => LastCall.args[1] # LastCall.args[2]) =>
        /\ peer["client"].Ack = peer["server"].Seq
        /\ peer["server"].Ack = peer["client"].Seq

\* Disconnect has returned after a Send of 3 bytes from the client to itself,
\* which had left the client acknowledging its own sequence number
C18_Witness ==
    /\ HasConn /\ status = "running" /\ NOps = 3
    /\ hist[Len(hist) - 2].op = "Connect"
    /\ hist[Len(hist) - 1] = Call("Send", <<"client", "client", Slice(Bytes(3))>>)
    /\ LastCall.op = "Disconnect"
    /\ peer["client"].Seq # peer["server"].Seq
    /\ peer["client"].Ack = peer["server"].Seq
    /\ peer["server"].Ack = peer["client"].Seq

(***************************************************************************)
(* C19: Send between distinct peers leaves the receiver's sequence number  *)
(* unchanged; Send and Disconnect leave both peers' options and the        *)
(* connection's three option lists unchanged; no lifecycle call changes a  *)
(* peer's hardware address, IP address or port.                            *)
(***************************************************************************)
C19_FrameConditions ==
    [][(HasConn /\ hist'[Len(hist')].op \in LifecycleOps) =>
        /\ (Step("Send") /\ StepArgs[1] # StepArgs[2]) =>
              peer'[StepArgs[2]].Seq = peer[StepArgs[2]].Seq
        /\ (Step("Send") \/ Step("Disconnect")) =>
              /\ \A id \in DOMAIN peer : peer'[id].Options = peer[id].Options
              /\ conn'[1].Options = C.Options
        /\ DOMAIN peer' = DOMAIN peer
        /\ \A id \in DOMAIN peer :
              /\ peer'[id].MAC = peer[id].MAC
              /\ peer'[id].IP = peer[id].IP
              /\ peer'[id].Port = peer[id].Port]_vars

\* with option lists configured, the server has sent 3 bytes to the client
\* after Connect: the client's sequence number is still the one Connect
\* left, and both peers still hold the ACK option list
C19_Witness ==
    /\ HasConn /\ NOps = 2 /\ status = "running"
    /\ hist[Len(hist) - 1].op = "Connect"
    /\ LastCall = Call("Send", <<"server", "client", Slice(Bytes(3))>>)
    /\ C.Options.ACK # <<>>
    /\ peer["client"].Options = C.Options.ACK
    /\ peer["server"].Options = C.Options.ACK
    /\ peer["client"].Seq = Succ32(IsnOf("client"))
    /\ peer["server"].Seq = Plus32(IsnOf("server"), 4)
    /\ peer["server"].Port = 80

(***************************************************************************)
(* C20: Loop hands the observed packets to the packet handler one at a     *)
(* time, in the order of their arrival; when MaxPkts > 0 the packet        *)
(* handler is called at most MaxPkts times and Loop returns in the step    *)
(* that handles packet number MaxPkts; when the packet source has ended    *)
(* and its channel is empty, Loop returns without calling the handler.     *)
(***************************************************************************)
C20_PacketBound ==
    [][/\ handled' # handled =>
             /\ lpc = "select"
             /\ packetSource.queue # <<>>
             /\ handled' = Append(handled, Head(packetSource.queue))
       /\ \A i \in DOMAIN handled' : handled'[i] = i
       /\ listener.MaxPkts > 0 =>
             /\ Len(handled') <= listener.MaxPkts
             /\ (handled' # handled /\ Len(handled') = listener.MaxPkts) =>
                   lpc' = "returned"
       /\ (event' = "nil" /\ lpc = "select") =>
             /\ packetSource.eof /\ packetSource.queue = <<>>
             /\ handled' = handled
             /\ lpc' = "returned"
       /\ (lpc' = "returned" /\ lpc = "select") =>
             event' \in {"packet", "nil", "stop"}]_vars

\* with MaxPkts = 2, Loop has returned on handling the second packet while a
\* third one waits in the channel
C20_Witness ==
    /\ listener.MaxPkts = 2
    /\ lpc = "returned"
    /\ event = "packet"
    /\ handled = <<1, 2>>
    /\ packetSource.queue = <<3>>

(***************************************************************************)
(* C21: when MaxTime > 0, a Loop that has entered its select loop          *)
(* eventually returns; with MaxPkts = 0 and a packet source that never     *)
(* ends it returns through the stop case, whatever packets and ticks wait  *)
(* to be handled, and no stop is received before MaxTime has elapsed.      *)
(* When MaxTime = 0, MaxPkts = 0 and the packet source has not ended, Loop *)
(* has not returned, at any time.                                          *)
(***************************************************************************)
C21_TimeBound ==
    /\ [](lpc = "select" /\ listener.MaxTime > 0 => <>(lpc = "returned"))
    /\ []((/\ lpc = "select" /\ listener.MaxTime > 0
           /\ listener.MaxPkts = 0 /\ ~listener.File)
            => <>(lpc = "returned" /\ event = "stop"))
    /\ [](event = "stop" => listener.MaxTime > 0 /\ now >= listener.MaxTime)
    /\ []((/\ listener.MaxTime = 0 /\ listener.MaxPkts = 0
           /\ ~packetSource.eof)
            => lpc # "returned")

\* with MaxTime = 3, MaxPkts = 0 and packets captured from a device, Loop has
\* returned through the stop case at time 3, after handling two packets,
\* while a third packet and a tick still wait to be handled
C21_Witness ==
    /\ listener.MaxTime = 3 /\ listener.MaxPkts = 0 /\ ~listener.File
    /\ lpc = "returned"
    /\ event = "stop"
    /\ now = 3
    /\ Len(handled) = 2
    /\ timerCalls = 0
    /\ packetSource.queue = <<3>>
    /\ ticker = "fired"

====
